---- MODULE Spec2Model ----
(***************************************************************************)
(* A model of fswatcher: the recursive inotify watcher                     *)
(* (src/src/inotify.rs, FileSystemWatcherInotify) running against a        *)
(* filesystem and a kernel notification queue, and the delaying stream     *)
(* (src/src/file_event_delay.rs, FileEventDelay) running against an        *)
(* abstract input stream and an interval timer.                            *)
(*                                                                         *)
(* Spec         : the watcher, the filesystem and the kernel.              *)
(* SpecRecreate : the same, where the filesystem activity is one           *)
(*                directory of the root being created, written to and      *)
(*                removed again and again.                                 *)
(* SpecChannel  : the same watcher, where the notification channel can     *)
(*                report a read error or end.                              *)
(* SpecDelete   : delete_watches applied to the mappings the watcher can    *)
(*                hold over a small set of paths.                          *)
(* SpecDelay    : the delaying stream, its input and its timer.            *)
(***************************************************************************)
EXTENDS Integers, Sequences, FiniteSets, TLC

VARIABLES
    \* ---- the filesystem and the kernel (the watcher's environment)
    dirs,             \* path -> inode, the directories that exist
    kwatch,           \* handle -> inode watched by the kernel (0: handle free)
    kgen,             \* handle -> how often the kernel has issued the handle
    queue,            \* raw records buffered by the kernel and the inotify crate
    ops,              \* filesystem operations the environment may still perform, by kind
    \* ---- FileSystemWatcherInotify (inotify.rs:13-21)
    new_directories,
    watches_by_path,
    paths_by_watch,
    removed_watches,
    \* ---- position in poll_next and its result
    pc,               \* "poll": top of the loop; "list": between add_watch and read_dir
    cur,              \* new_directory while pc = "list"
    ret,              \* what the latest step of poll_next gave the caller
    panicked,         \* the expect() of really_delete_watches has fired
    \* ---- history
    ginst,            \* path -> the issue number its handle had when it was installed
    hinst,            \* handle -> the issue number it had when it was last installed
    marks,            \* <<path, handle, issue>> moved to removed_watches so far
    stopped,          \* Stopped(DirectoryRemoved) has been delivered
    errSeen,          \* an add_watch has failed
    \* ---- FileEventDelay (file_event_delay.rs:24-40) and its environment
    input,            \* the items the input stream has ready
    input_done,       \* the input stream is exhausted once `input` is empty
    produced,         \* items the input stream has produced so far
    timer,            \* NoTimer, or the ticks of the interval that are due
    event_queue,      \* <<first array, second array>>
    processed_events,
    dret,             \* what the latest poll_next of the delay gave the caller
    \* ---- history
    accepted,         \* the items pushed to the first array, in order
    delivered,        \* the items given to the caller, in order
    batches,          \* the items accepted, window by window (the last one is filling)
    young             \* ids of the items the input has produced since a period of the interval last ended

wvars == <<dirs, kwatch, kgen, queue, ops, new_directories, watches_by_path,
           paths_by_watch, removed_watches, pc, cur, ret, panicked, ginst,
           hinst, marks, stopped, errSeen>>

dvars == <<input, input_done, produced, timer, event_queue, processed_events, dret,
           accepted, delivered, batches, young>>

vars == <<wvars, dvars>>

-----------------------------------------------------------------------------
(* Bounds *)

\* filesystem operations the environment performs in one run, by kind
MaxMkdir == 2
MaxRmdir == 2
MaxRename == 1
MaxFile == 1
\* times the directory of SpecRecreate is created in one run
MaxRecreate == 3
\* failures of the notification channel in one run of SpecChannel
MaxFault == 2
\* items the input stream of the delay produces in one run
MaxItems == 3
\* ticks of the interval that can be due at once
MaxDue == 2
\* the kernel's pool of watch handles is 1..MaxHandle
MaxHandle == 3
\* components of the longest path (the root has one)
MaxDepth == 3

-----------------------------------------------------------------------------
(* Paths: a path is the sequence of its components; OsString order is the  *)
(* byte order of the text "/c1/c2/...".                                    *)

Root == <<"r">>
Outside == <<"o">>
DirNames == {"a", "a.d"}
FileNames == {"f"}
NoName == ""

Handles == 1..MaxHandle
NoIno == 0
RootIno == 1
OutsideIno == 2
Inodes == 1..(MaxMkdir + MaxRecreate + 2)

NameBytes(n) ==
    CASE n = "r" -> <<114>>
      [] n = "o" -> <<111>>
      [] n = "a" -> <<97>>
      [] n = "a.d" -> <<97, 46, 100>>
      [] n = "f" -> <<102>>
      [] n = "b" -> <<98>>
      [] n = "c" -> <<99>>

RECURSIVE PathBytes(_)
PathBytes(p) ==
    IF p = <<>> THEN <<>>
    ELSE PathBytes(SubSeq(p, 1, Len(p) - 1)) \o <<47>> \o NameBytes(p[Len(p)])

\* Ord for OsString: s < t
LexLess(s, t) ==
    \E i \in 1..Len(t) :
        /\ i <= Len(s) + 1
        /\ SubSeq(s, 1, i - 1) = SubSeq(t, 1, i - 1)
        /\ (i = Len(s) + 1 \/ s[i] < t[i])

PathLess(p, q) == LexLess(PathBytes(p), PathBytes(q))

\* Path::starts_with: by whole components
StartsWith(p, q) == Len(q) <= Len(p) /\ SubSeq(p, 1, Len(q)) = q

Parent(p) == SubSeq(p, 1, Len(p) - 1)
Base(p) == p[Len(p)]

Restrict(f, S) == [x \in S |-> f[x]]
Range(f) == {f[x] : x \in DOMAIN f}

RECURSIVE Perms(_)
\* every order in which a set can be enumerated
Perms(S) ==
    IF S = {} THEN {<<>>}
    ELSE UNION {{<<x>> \o s : s \in Perms(S \ {x})} : x \in S}

-----------------------------------------------------------------------------
(* Domain events (lib.rs:40-56) and poll results *)

Event(k, p) == [kind |-> k, path |-> p]
NoEvent == Event("None", <<>>)
PollPending == Event("Pending", <<>>)
PollEnd == Event("End", <<>>)
EventKinds == {"Stopped", "DirectoryWatched", "DirectoryCreated", "DirectoryRemoved",
               "FileCreated", "FileModified", "FileRemoved", "Error"}
IsEvent(e) == e.kind \in EventKinds

-----------------------------------------------------------------------------
(* The kernel: raw records *)

Rec(h, m, d, n) == [wd |-> h, gen |-> kgen[h], mask |-> m, isdir |-> d, name |-> n]

\* the records the kernel queues for an event on inode ino
Emit(ino, m, d, n) ==
    IF \E h \in Handles : kwatch[h] = ino
    THEN <<Rec(CHOOSE h \in Handles : kwatch[h] = ino, m, d, n)>>
    ELSE <<>>

\* the handles add_watch may issue for a directory that has no watch: any free
\* one; the handles never issued before are alike, so the lowest stands for them
FreeHandles ==
    LET free == {h \in Handles : kwatch[h] = NoIno}
    IN  {h \in free : kgen[h] > 0 \/ \A g \in free : kgen[g] = 0 => h <= g}

InTree(p) == StartsWith(p, Root)
Children(p) == {q \in DOMAIN dirs : Len(q) = Len(p) + 1 /\ StartsWith(q, p)}
Subtree(p) == {q \in DOMAIN dirs : StartsWith(q, p)}
FreshIno == CHOOSE i \in Inodes : i \notin Range(dirs) /\ \A j \in Inodes : j < i => j \in Range(dirs)

\* mkdir parent/n inside the watched tree
FsMkdir(parent, n) ==
    /\ ~panicked /\ ops.mkdir > 0
    /\ parent \in DOMAIN dirs /\ InTree(parent) /\ Len(parent) < MaxDepth
    /\ Append(parent, n) \notin DOMAIN dirs
    /\ dirs' = [q \in DOMAIN dirs \cup {Append(parent, n)} |->
                    IF q \in DOMAIN dirs THEN dirs[q] ELSE FreshIno]
    /\ queue' = queue \o Emit(dirs[parent], "CREATE", TRUE, n)
    /\ ops' = [ops EXCEPT !.mkdir = @ - 1]
    /\ UNCHANGED <<kwatch, kgen, new_directories, watches_by_path, paths_by_watch,
                   removed_watches, pc, cur, ret, panicked, ginst, hinst, marks, stopped, errSeen>>
    /\ UNCHANGED dvars

\* rmdir p: the parent's watch reports DELETE, the directory's own watch
\* reports DELETE_SELF and IGNORED and the kernel drops it
FsRmdir(p) ==
    /\ ~panicked /\ ops.rmdir > 0
    /\ p \in DOMAIN dirs /\ p # Outside /\ Children(p) = {}
    /\ dirs' = Restrict(dirs, DOMAIN dirs \ {p})
    /\ queue' = queue
                 \o (IF Len(p) > 1 THEN Emit(dirs[Parent(p)], "DELETE", TRUE, Base(p)) ELSE <<>>)
                 \o Emit(dirs[p], "DELETE_SELF", FALSE, NoName)
                 \o Emit(dirs[p], "IGNORED", FALSE, NoName)
    /\ kwatch' = [h \in Handles |-> IF kwatch[h] = dirs[p] THEN NoIno ELSE kwatch[h]]
    /\ ops' = [ops EXCEPT !.rmdir = @ - 1]
    /\ UNCHANGED <<kgen, new_directories, watches_by_path, paths_by_watch,
                   removed_watches, pc, cur, ret, panicked, ginst, hinst, marks, stopped, errSeen>>
    /\ UNCHANGED dvars

\* rename p to q (q does not exist): MOVED_FROM on the old parent, MOVED_TO
\* on the new one; the watches on the moved directories stay valid
FsRename(p, n, parent) ==
    LET q == Append(parent, n)
        moved(x) == q \o SubSeq(x, Len(p) + 1, Len(x))
    IN  /\ ~panicked /\ ops.rename > 0
        /\ p \in DOMAIN dirs /\ Len(p) > 1
        /\ parent \in DOMAIN dirs /\ ~StartsWith(parent, p)
        /\ q \notin DOMAIN dirs
        /\ \A x \in Subtree(p) : Len(moved(x)) <= MaxDepth
        /\ dirs' = [y \in (DOMAIN dirs \ Subtree(p)) \cup {moved(x) : x \in Subtree(p)} |->
                        IF y \in DOMAIN dirs /\ y \notin Subtree(p) THEN dirs[y]
                        ELSE dirs[p \o SubSeq(y, Len(q) + 1, Len(y))]]
        /\ queue' = queue \o Emit(dirs[Parent(p)], "MOVED_FROM", TRUE, Base(p))
                          \o Emit(dirs[parent], "MOVED_TO", TRUE, n)
        /\ ops' = [ops EXCEPT !.rename = @ - 1]
        /\ UNCHANGED <<kwatch, kgen, new_directories, watches_by_path, paths_by_watch,
                       removed_watches, pc, cur, ret, panicked, ginst, hinst, marks, stopped, errSeen>>
        /\ UNCHANGED dvars

\* what the environment does to files (translate_inotify_event handles every mask)
FileMasks == {"MODIFY"}

\* a file named n in the watched directory d is written
FsFile(d, m, n) ==
    /\ ~panicked /\ ops.file > 0
    /\ d \in DOMAIN dirs
    /\ \E h \in Handles : kwatch[h] = dirs[d]
    /\ queue' = queue \o Emit(dirs[d], m, FALSE, n)
    /\ ops' = [ops EXCEPT !.file = @ - 1]
    /\ UNCHANGED <<dirs, kwatch, kgen, new_directories, watches_by_path, paths_by_watch,
                   removed_watches, pc, cur, ret, panicked, ginst, hinst, marks, stopped, errSeen>>
    /\ UNCHANGED dvars

\* what the stream yields in place of a record: Some(Err(e)), None
ChannelMarks == {"ERR", "EOF"}
Mark(m) == [wd |-> 0, gen |-> 0, mask |-> m, isdir |-> FALSE, name |-> NoName]
ChannelOpen == \A i \in 1..Len(queue) : queue[i].mask # "EOF"

\* a read of the inotify descriptor fails: the stream yields the error after
\* the records it has buffered
ChannelError ==
    /\ ~panicked /\ ops.fault > 0 /\ ChannelOpen
    /\ queue' = Append(queue, Mark("ERR"))
    /\ ops' = [ops EXCEPT !.fault = @ - 1]
    /\ UNCHANGED <<dirs, kwatch, kgen, new_directories, watches_by_path, paths_by_watch,
                   removed_watches, pc, cur, ret, panicked, ginst, hinst, marks, stopped, errSeen>>
    /\ UNCHANGED dvars

\* the stream ends after the records it has buffered
ChannelClose ==
    /\ ~panicked /\ ops.fault > 0 /\ ChannelOpen
    /\ queue' = Append(queue, Mark("EOF"))
    /\ ops' = [ops EXCEPT !.fault = @ - 1]
    /\ UNCHANGED <<dirs, kwatch, kgen, new_directories, watches_by_path, paths_by_watch,
                   removed_watches, pc, cur, ret, panicked, ginst, hinst, marks, stopped, errSeen>>
    /\ UNCHANGED dvars

-----------------------------------------------------------------------------
(* FileSystemWatcherInotify *)

Self == [new_directories |-> new_directories,
         watches_by_path |-> watches_by_path,
         paths_by_watch |-> paths_by_watch,
         removed_watches |-> removed_watches]

\* the entries delete_watches collects: from the first key >= path, in key
\* order, up to the first key that does not start with path
WatchesToDelete(path, wbp) ==
    {p \in DOMAIN wbp :
        /\ ~PathLess(p, path)
        /\ StartsWith(p, path)
        /\ \A j \in DOMAIN wbp :
              (~PathLess(j, path) /\ PathLess(j, p)) => StartsWith(j, path)}

\* a delete_watches that leaves the deleted path in new_directories
delete_watches_leaving_pending(path, w) ==
    LET del == WatchesToDelete(path, w.watches_by_path)
        wds == {w.watches_by_path[p] : p \in del}
    IN  [w EXCEPT !.watches_by_path = Restrict(@, DOMAIN @ \ del),
                  !.paths_by_watch = Restrict(@, DOMAIN @ \ wds),
                  !.removed_watches = @ \cup wds,
                  !.new_directories = Append(@, path)]

\* self.delete_watches(path)
delete_watches(path, w) ==
    LET del == WatchesToDelete(path, w.watches_by_path)
        wds == {w.watches_by_path[p] : p \in del}
    IN  [w EXCEPT !.watches_by_path = Restrict(@, DOMAIN @ \ del),
                  !.paths_by_watch = Restrict(@, DOMAIN @ \ wds),
                  !.removed_watches = @ \cup wds]

Result(w, e) == [w |-> w, event |-> e]

\* a directory event that leaves new_directories alone
push_back_skipped(path, w) == w

\* self.new_directories.push_back(path)
push_back(path, w) == [w EXCEPT !.new_directories = Append(@, path)]

translate_inotify_event(ev, w) ==
    IF ev.wd \in w.removed_watches
    THEN IF ev.mask = "IGNORED" /\ ~ev.isdir
         THEN Result([w EXCEPT !.removed_watches = @ \ {ev.wd}], NoEvent)
         ELSE Result(w, NoEvent)
    ELSE IF ev.wd \notin DOMAIN w.paths_by_watch
    THEN Result(w, NoEvent)
    ELSE
    LET directory == w.paths_by_watch[ev.wd]
        name_available == ev.name # NoName
        path == IF name_available THEN Append(directory, ev.name) ELSE directory
    IN  IF ev.mask = "CREATE" /\ ~ev.isdir /\ name_available
            THEN Result(w, Event("FileCreated", path))
        ELSE IF ev.mask = "MODIFY" /\ ~ev.isdir /\ name_available
            THEN Result(w, Event("FileModified", path))
        ELSE IF ev.mask = "ATTRIB" /\ ~ev.isdir /\ name_available
            THEN Result(w, Event("FileModified", path))
        ELSE IF ev.mask = "DELETE" /\ ~ev.isdir /\ name_available
            THEN Result(w, Event("FileRemoved", path))
        ELSE IF ev.mask = "MOVED_FROM" /\ ~ev.isdir /\ name_available
            THEN Result(w, Event("FileRemoved", path))
        ELSE IF ev.mask = "MOVED_TO" /\ ~ev.isdir /\ name_available
            THEN Result(w, Event("FileCreated", path))
        ELSE IF ev.mask = "CREATE" /\ ev.isdir /\ name_available
            THEN Result(push_back(path, w), Event("DirectoryCreated", path))
        ELSE IF ev.mask = "DELETE" /\ ev.isdir /\ name_available
            THEN Result(delete_watches(path, w), Event("DirectoryRemoved", path))
        ELSE IF ev.mask = "MOVED_FROM" /\ ev.isdir /\ name_available
            THEN Result(delete_watches(path, w), Event("DirectoryRemoved", path))
        ELSE IF ev.mask = "MOVED_TO" /\ ev.isdir /\ name_available
            THEN Result(push_back(path, w), Event("DirectoryCreated", path))
        ELSE IF ev.mask = "DELETE_SELF" /\ ~ev.isdir
            THEN IF path = Root
                 THEN Result(delete_watches(path, w), Event("Stopped", <<>>))
                 ELSE Result(w, NoEvent)
        ELSE Result(w, NoEvent)

\* the history of delete_watches: what w moved to removed_watches on the way to w2
NewMarks(w, w2) ==
    {<<p, w.watches_by_path[p], ginst[p]>> :
        p \in DOMAIN w.watches_by_path \ DOMAIN w2.watches_by_path}

\* a poll_next that reads the stream while directories are still pending
PollDrainBeforeInstall ==
    /\ ~panicked /\ pc = "poll"
    /\ queue # <<>> /\ Head(queue).mask \notin ChannelMarks
    /\ LET r == translate_inotify_event(Head(queue), Self)
       IN  /\ queue' = Tail(queue)
           /\ new_directories' = r.w.new_directories
           /\ watches_by_path' = r.w.watches_by_path
           /\ paths_by_watch' = r.w.paths_by_watch
           /\ removed_watches' = r.w.removed_watches
           /\ ret' = r.event
           /\ marks' = marks \cup NewMarks(Self, r.w)
           /\ ginst' = Restrict(ginst, DOMAIN r.w.watches_by_path)
           /\ stopped' = (stopped \/ r.event.kind = "Stopped")
    /\ UNCHANGED <<dirs, kwatch, kgen, ops, pc, cur, panicked, hinst, errSeen>>
    /\ UNCHANGED dvars

\* poll_next, new_directories empty, the stream has a record: translate it
PollDrain ==
    /\ ~panicked /\ pc = "poll"
    /\ new_directories = <<>>
    /\ queue # <<>> /\ Head(queue).mask \notin ChannelMarks
    /\ LET r == translate_inotify_event(Head(queue), Self)
       IN  /\ queue' = Tail(queue)
           /\ new_directories' = r.w.new_directories
           /\ watches_by_path' = r.w.watches_by_path
           /\ paths_by_watch' = r.w.paths_by_watch
           /\ removed_watches' = r.w.removed_watches
           /\ ret' = r.event
           /\ marks' = marks \cup NewMarks(Self, r.w)
           /\ ginst' = Restrict(ginst, DOMAIN r.w.watches_by_path)
           /\ stopped' = (stopped \/ r.event.kind = "Stopped")
    /\ UNCHANGED <<dirs, kwatch, kgen, ops, pc, cur, panicked, hinst, errSeen>>
    /\ UNCHANGED dvars

\* poll_next, new_directories empty, the stream yields Some(Err(e))
PollStreamError ==
    /\ ~panicked /\ pc = "poll"
    /\ new_directories = <<>>
    /\ queue # <<>> /\ Head(queue).mask = "ERR"
    /\ queue' = Tail(queue)
    /\ ret' = Event("Error", <<>>)
    /\ UNCHANGED <<dirs, kwatch, kgen, ops, new_directories, watches_by_path, paths_by_watch,
                   removed_watches, pc, cur, panicked, ginst, hinst, marks, stopped, errSeen>>
    /\ UNCHANGED dvars

\* poll_next, new_directories empty, the stream yields None
PollStreamEnd ==
    /\ ~panicked /\ pc = "poll"
    /\ new_directories = <<>>
    /\ queue # <<>> /\ Head(queue).mask = "EOF"
    /\ ret' = PollEnd
    /\ UNCHANGED <<dirs, kwatch, kgen, queue, ops, new_directories, watches_by_path,
                   paths_by_watch, removed_watches, pc, cur, panicked, ginst, hinst, marks,
                   stopped, errSeen>>
    /\ UNCHANGED dvars

\* really_delete_watches: rm_watch every handle of removed_watches, then clear
\* the set; each rm_watch makes the kernel queue IGNORED
really_delete_watches ==
    IF \E wd \in removed_watches : kwatch[wd] = NoIno
    THEN \* rm_watch fails: expect() panics, after the handles the iteration
         \* of the HashSet visited first have been released
         /\ panicked' = TRUE
         /\ \E done \in SUBSET {wd \in removed_watches : kwatch[wd] # NoIno} :
               /\ \E order \in Perms(done) :
                     queue' = queue \o [i \in 1..Len(order) |->
                                           Rec(order[i], "IGNORED", FALSE, NoName)]
               /\ kwatch' = [h \in Handles |-> IF h \in done THEN NoIno ELSE kwatch[h]]
         /\ UNCHANGED <<removed_watches, ret>>
    ELSE /\ \E order \in Perms(removed_watches) :
               queue' = queue \o [i \in 1..Len(order) |->
                                     Rec(order[i], "IGNORED", FALSE, NoName)]
         /\ kwatch' = [h \in Handles |-> IF h \in removed_watches THEN NoIno ELSE kwatch[h]]
         /\ removed_watches' = {}
         /\ ret' = PollPending
         /\ UNCHANGED panicked

\* a poll_next that releases the handles without having read the stream
PollReleaseWhileBuffered ==
    /\ ~panicked /\ pc = "poll"
    /\ new_directories = <<>>
    /\ really_delete_watches
    /\ UNCHANGED <<dirs, kgen, ops, new_directories, watches_by_path, paths_by_watch,
                   pc, cur, ginst, hinst, marks, stopped, errSeen>>
    /\ UNCHANGED dvars

\* poll_next, new_directories empty, the stream returns Poll::Pending:
\* really_delete_watches, then return Poll::Pending
PollWouldBlock ==
    /\ ~panicked /\ pc = "poll"
    /\ new_directories = <<>>
    /\ queue = <<>>
    /\ really_delete_watches
    /\ UNCHANGED <<dirs, kgen, ops, new_directories, watches_by_path, paths_by_watch,
                   pc, cur, ginst, hinst, marks, stopped, errSeen>>
    /\ UNCHANGED dvars

\* an add_watch failure that returns no event
add_watch_failed_silently ==
    /\ ret' = NoEvent
    /\ errSeen' = TRUE
    /\ UNCHANGED <<kwatch, kgen, watches_by_path, paths_by_watch, pc, cur, ginst, hinst>>

\* Err(e) => return Poll::Ready(Some(FileSystemEvent::Error(e.into())))
add_watch_failed ==
    /\ ret' = Event("Error", <<>>)
    /\ errSeen' = TRUE
    /\ UNCHANGED <<kwatch, kgen, watches_by_path, paths_by_watch, pc, cur, ginst, hinst>>

\* poll_next, new_directories not empty: pop a directory, and if it still is
\* one, add_watch and enter it into the two maps
PollInstall ==
    /\ ~panicked /\ pc = "poll"
    /\ new_directories # <<>>
    /\ LET new_directory == Head(new_directories)
       IN  /\ new_directories' = Tail(new_directories)
           /\ IF new_directory \in DOMAIN dirs
              THEN LET ino == dirs[new_directory]
                       have == {h \in Handles : kwatch[h] = ino}
                       free == FreeHandles
                   IN  \/ \* add_watch fails: no handle is left, or for a reason
                          \* outside the model (permissions, a limit)
                          /\ (have = {} /\ free = {}) \/ ops.fault > 0
                          /\ add_watch_failed
                          /\ ops' = IF ops.fault > 0 THEN [ops EXCEPT !.fault = @ - 1] ELSE ops
                       \/ \E watch \in (IF have # {} THEN have ELSE free) :
                            /\ UNCHANGED ops
                            /\ kwatch' = [kwatch EXCEPT ![watch] = ino]
                            /\ kgen' = IF have # {} THEN kgen
                                       ELSE [kgen EXCEPT ![watch] = @ + 1]
                            /\ watches_by_path' =
                                 [p \in DOMAIN watches_by_path \cup {new_directory} |->
                                     IF p = new_directory THEN watch ELSE watches_by_path[p]]
                            /\ paths_by_watch' =
                                 [h \in DOMAIN paths_by_watch \cup {watch} |->
                                     IF h = watch THEN new_directory ELSE paths_by_watch[h]]
                            /\ ginst' =
                                 [p \in DOMAIN watches_by_path \cup {new_directory} |->
                                     IF p = new_directory THEN kgen'[watch] ELSE ginst[p]]
                            /\ hinst' = [hinst EXCEPT ![watch] = kgen'[watch]]
                            /\ pc' = "list"
                            /\ cur' = new_directory
                            /\ ret' = NoEvent
                            /\ UNCHANGED errSeen
              ELSE \* not a directory any more: just try again
                   /\ ret' = NoEvent
                   /\ UNCHANGED <<kwatch, kgen, ops, watches_by_path, paths_by_watch, pc, cur,
                                  ginst, hinst, errSeen>>
    /\ UNCHANGED <<dirs, queue, removed_watches, panicked, marks, stopped>>
    /\ UNCHANGED dvars

\* watch_subdirectories(new_directory), then DirectoryWatched
PollList ==
    /\ ~panicked /\ pc = "list"
    /\ \E order \in Perms(IF cur \in DOMAIN dirs THEN Children(cur) ELSE {}) :
          new_directories' = new_directories \o order
    /\ ret' = Event("DirectoryWatched", cur)
    /\ pc' = "poll"
    /\ cur' = <<>>
    /\ UNCHANGED <<dirs, kwatch, kgen, queue, ops, watches_by_path, paths_by_watch,
                   removed_watches, panicked, ginst, hinst, marks, stopped, errSeen>>
    /\ UNCHANGED dvars

-----------------------------------------------------------------------------
(* FileEventDelay *)

NoTimer == -1
ItemKinds == {"FileCreated", "FileRemoved", "FileModified"}
ItemPaths == {<<"r", "a">>, <<"r", "b">>}

Ready(e) == [poll |-> "Ready", item |-> e]
ReadyNone == [poll |-> "Ready", item |-> NoEvent]
Pending == [poll |-> "Pending", item |-> NoEvent]
Panic == [poll |-> "Panic", item |-> NoEvent]
NotPolled == [poll |-> "NotPolled", item |-> NoEvent]

\* the input stream gets an item ready
InputReady(k, p) ==
    /\ ~input_done /\ produced < MaxItems
    /\ dret.poll # "Panic"
    /\ input' = Append(input, [id |-> produced + 1, kind |-> k, path |-> p])
    /\ produced' = produced + 1
    /\ young' = young \cup {produced + 1}
    /\ UNCHANGED <<input_done, timer, event_queue, processed_events, dret,
                   accepted, delivered, batches>>
    /\ UNCHANGED wvars

\* the input stream ends
InputEnd ==
    /\ ~input_done
    /\ dret.poll # "Panic"
    /\ input_done' = TRUE
    /\ UNCHANGED <<input, produced, timer, event_queue, processed_events, dret,
                   accepted, delivered, batches, young>>
    /\ UNCHANGED wvars

\* min_delay passes: one more tick of the interval is due
TimerElapse ==
    /\ timer # NoTimer /\ timer < MaxDue
    /\ dret # ReadyNone /\ dret.poll # "Panic"
    /\ timer' = timer + 1
    /\ young' = {}
    /\ UNCHANGED batches
    /\ UNCHANGED <<input, input_done, produced, event_queue, processed_events, dret,
                   accepted, delivered>>
    /\ UNCHANGED wvars

\* a process_events that hands the second array on back to front
process_events_back_to_front(q, pe) ==
    [event_queue |-> << <<>>, q[1] >>,
     processed_events |-> pe \o [i \in 1..Len(q[2]) |-> q[2][Len(q[2]) + 1 - i]]]

\* process_events on the pair of arrays q and the deque pe: the second array
\* is drained into pe, then the arrays are swapped
process_events(q, pe) ==
    LET drained == <<q[1], <<>> >>
    IN  [event_queue |-> <<drained[2], drained[1]>>,
         processed_events |-> pe \o q[2]]

\* FileEventDelay::poll_next
DelayPoll ==
    /\ dret # ReadyNone /\ dret.poll # "Panic"
    /\ IF processed_events = <<>>
       THEN \* the while loop takes every item that is ready
            LET q0 == event_queue[1] \o input
                b0 == [batches EXCEPT ![Len(batches)] = @ \o input]
            IN
            /\ input' = <<>>
            /\ accepted' = accepted \o input
            /\ UNCHANGED young
            /\ IF input_done
               THEN \* the input returned Ready(None)
                    /\ event_queue' = <<q0, event_queue[2]>>
                    /\ dret' = ReadyNone
                    /\ batches' = b0
                    /\ UNCHANGED <<timer, processed_events, delivered>>
               ELSE LET t == IF q0 # <<>> /\ timer = NoTimer THEN 1 ELSE timer IN
                    IF t = NoTimer
                    THEN \* self_.timer.as_mut().unwrap() on None
                         /\ event_queue' = <<q0, event_queue[2]>>
                         /\ dret' = Panic
                         /\ batches' = b0
                         /\ UNCHANGED <<timer, processed_events, delivered>>
                    ELSE IF t > 0
                    THEN \* the interval has ticked
                         LET r == process_events(<<q0, event_queue[2]>>, processed_events)
                             pe == r.processed_events
                             q == r.event_queue
                         IN  /\ event_queue' = q
                             /\ batches' = IF b0[Len(b0)] = <<>> THEN b0 ELSE Append(b0, <<>>)
                             /\ timer' = IF q[2] = <<>> THEN NoTimer ELSE t - 1
                             /\ IF pe # <<>>
                                THEN /\ processed_events' = Tail(pe)
                                     /\ dret' = Ready(Head(pe))
                                     /\ delivered' = Append(delivered, Head(pe))
                                ELSE /\ processed_events' = pe
                                     /\ dret' = Pending
                                     /\ UNCHANGED delivered
                    ELSE /\ event_queue' = <<q0, event_queue[2]>>
                         /\ timer' = t
                         /\ dret' = Pending
                         /\ batches' = b0
                         /\ UNCHANGED <<processed_events, delivered>>
       ELSE /\ processed_events' = Tail(processed_events)
            /\ dret' = Ready(Head(processed_events))
            /\ delivered' = Append(delivered, Head(processed_events))
            /\ UNCHANGED <<input, timer, event_queue, accepted, batches, young>>
    /\ UNCHANGED <<input_done, produced>>
    /\ UNCHANGED wvars

-----------------------------------------------------------------------------

InitWith(budget) ==
    /\ dirs = (Root :> RootIno) @@ (Outside :> OutsideIno)
    /\ kwatch = [h \in Handles |-> NoIno]
    /\ kgen = [h \in Handles |-> 0]
    /\ queue = <<>>
    /\ ops = budget
    /\ new_directories = <<Root>>
    /\ watches_by_path = <<>>
    /\ paths_by_watch = <<>>
    /\ removed_watches = {}
    /\ pc = "poll"
    /\ cur = <<>>
    /\ ret = NoEvent
    /\ panicked = FALSE
    /\ ginst = <<>>
    /\ hinst = [h \in Handles |-> 0]
    /\ marks = {}
    /\ stopped = FALSE
    /\ errSeen = FALSE
    /\ input = <<>>
    /\ input_done = FALSE
    /\ produced = 0
    /\ timer = NoTimer
    /\ event_queue = << <<>>, <<>> >>
    /\ processed_events = <<>>
    /\ dret = NotPolled
    /\ accepted = <<>>
    /\ delivered = <<>>
    /\ batches = << <<>> >>
    /\ young = {}

Init == InitWith([mkdir |-> MaxMkdir, rmdir |-> MaxRmdir, rename |-> MaxRename, file |-> MaxFile,
                  fault |-> 0])

RecreatedDir == <<"r", "a">>

InitRecreate == InitWith([mkdir |-> MaxRecreate, rmdir |-> MaxRmdir, rename |-> 0, file |-> MaxFile,
                          fault |-> 0])

InitChannel == InitWith([mkdir |-> MaxMkdir, rmdir |-> 0, rename |-> 0, file |-> MaxFile,
                         fault |-> MaxFault])

Next ==
    \/ \E p \in DOMAIN dirs, n \in DirNames : FsMkdir(p, n)
    \/ \E p \in DOMAIN dirs : FsRmdir(p)
    \/ \E p \in DOMAIN dirs, n \in DirNames, q \in DOMAIN dirs : FsRename(p, n, q)
    \/ \E d \in DOMAIN dirs, m \in FileMasks, n \in FileNames : FsFile(d, m, n)
    \/ PollDrain
    \/ PollWouldBlock
    \/ PollInstall
    \/ PollList

NextRecreate ==
    \/ FsMkdir(Parent(RecreatedDir), Base(RecreatedDir))
    \/ FsRmdir(RecreatedDir)
    \/ \E m \in FileMasks, n \in FileNames : FsFile(RecreatedDir, m, n)
    \/ PollDrain
    \/ PollWouldBlock
    \/ PollInstall
    \/ PollList

\* the paths of SpecDelete: a directory, a sibling whose name extends its
\* name, a child, and an unrelated sibling
DeletePaths == {<<"r">>, <<"r", "a">>, <<"r", "a.d">>, <<"r", "a", "c">>, <<"r", "b">>}

\* watches_by_path over DeletePaths, each path with a handle of its own
Mappings ==
    UNION {{m \in [S -> Handles] : \A p, q \in S : p # q => m[p] # m[q]} : S \in SUBSET DeletePaths}

Inverse(m) == [h \in Range(m) |-> CHOOSE p \in DOMAIN m : m[p] = h]

\* the watcher with some directories watched and nothing buffered or pending
InitDelete ==
    /\ dirs = (Root :> RootIno) @@ (Outside :> OutsideIno)
    /\ kwatch = [h \in Handles |-> NoIno]
    /\ kgen = [h \in Handles |-> 0]
    /\ queue = <<>>
    /\ ops = [mkdir |-> 0, rmdir |-> 0, rename |-> 0, file |-> 0, fault |-> 0]
    /\ new_directories = <<>>
    /\ watches_by_path \in Mappings
    /\ paths_by_watch = Inverse(watches_by_path)
    /\ removed_watches = {}
    /\ pc = "poll"
    /\ cur = <<>>
    /\ ret = NoEvent
    /\ panicked = FALSE
    /\ ginst = [p \in DOMAIN watches_by_path |-> 0]
    /\ hinst = [h \in Handles |-> 0]
    /\ marks = {}
    /\ stopped = FALSE
    /\ errSeen = FALSE
    /\ input = <<>>
    /\ input_done = FALSE
    /\ produced = 0
    /\ timer = NoTimer
    /\ event_queue = << <<>>, <<>> >>
    /\ processed_events = <<>>
    /\ dret = NotPolled
    /\ accepted = <<>>
    /\ delivered = <<>>
    /\ batches = << <<>> >>
    /\ young = {}

\* self.delete_watches(path)
ApplyDelete(path) ==
    /\ path \in DOMAIN watches_by_path
    /\ LET w == delete_watches(path, Self)
       IN  /\ new_directories' = w.new_directories
           /\ watches_by_path' = w.watches_by_path
           /\ paths_by_watch' = w.paths_by_watch
           /\ removed_watches' = w.removed_watches
           /\ marks' = marks \cup NewMarks(Self, w)
           /\ ginst' = Restrict(ginst, DOMAIN w.watches_by_path)
    /\ UNCHANGED <<dirs, kwatch, kgen, queue, ops, pc, cur, ret, panicked, hinst, stopped,
                   errSeen>>
    /\ UNCHANGED dvars

NextDelete == \E path \in DeletePaths : ApplyDelete(path)

NextChannel ==
    \/ \E n \in DirNames : FsMkdir(Root, n)
    \/ \E d \in DOMAIN dirs, m \in FileMasks, n \in FileNames : FsFile(d, m, n)
    \/ ChannelError
    \/ ChannelClose
    \/ PollDrain
    \/ PollStreamError
    \/ PollStreamEnd
    \/ PollWouldBlock
    \/ PollInstall
    \/ PollList

DelayNext ==
    \/ \E k \in ItemKinds, p \in ItemPaths : InputReady(k, p)
    \/ InputEnd
    \/ TimerElapse
    \/ DelayPoll

Spec == Init /\ [][Next]_vars

SpecRecreate == InitRecreate /\ [][NextRecreate]_vars

SpecChannel == InitChannel /\ [][NextChannel]_vars

SpecDelete == InitDelete /\ [][NextDelete]_vars

SpecDelay == Init /\ [][DelayNext]_vars

-----------------------------------------------------------------------------
(* Properties of the watcher (Spec) *)

WatcherStep ==
    \/ PollDrain \/ PollStreamError \/ PollStreamEnd
    \/ PollWouldBlock \/ PollInstall \/ PollList

HasPath(e) == IsEvent(e) /\ e.kind \notin {"Stopped", "Error"}

IsPrefix(s, t) == Len(s) <= Len(t) /\ SubSeq(t, 1, Len(s)) = s

\* C1: no handle is at once in the active mapping (either direction) and in
\* removed_watches.
C1_ActiveAndRemovedDisjoint ==
    removed_watches \cap (DOMAIN paths_by_watch \cup Range(watches_by_path)) = {}

C3_NoStaleAttribution ==
    [][(PollDrain /\ HasPath(ret')) =>
          ~\E m \in marks :
              /\ m[2] = Head(queue).wd
              /\ m[3] = Head(queue).gen
              /\ m[3] < hinst[m[2]]
              /\ StartsWith(ret'.path, m[1])]_vars

\* C4: watches_by_path and paths_by_watch are inverse to each other.
C4_MappingBijective ==
    /\ DOMAIN paths_by_watch = Range(watches_by_path)
    /\ \A p \in DOMAIN watches_by_path : paths_by_watch[watches_by_path[p]] = p
    /\ \A h \in DOMAIN paths_by_watch :
          /\ paths_by_watch[h] \in DOMAIN watches_by_path
          /\ watches_by_path[paths_by_watch[h]] = h

\* C5: when the watcher has returned Pending with an empty pending queue, and
\* the source holds no record and no error has occurred, every directory of
\* the tree under the root has an active mapping entry whose handle the
\* kernel holds on that directory.
C5_QuiescentSynchronized ==
    (/\ ret = PollPending /\ pc = "poll" /\ new_directories = <<>>
     /\ queue = <<>> /\ ~panicked /\ ~errSeen)
    => \A p \in DOMAIN dirs :
          InTree(p) => /\ p \in DOMAIN watches_by_path
                       /\ kwatch[watches_by_path[p]] = dirs[p]

\* C6: no path in new_directories is a key of watches_by_path.
C6_PendingNotActive ==
    \A i \in 1..Len(new_directories) : new_directories[i] \notin DOMAIN watches_by_path

\* C7: once Stopped has been delivered, no poll of the watcher delivers
\* another event.
C7_StoppedIsTerminal ==
    [][(stopped /\ WatcherStep) => ~IsEvent(ret')]_vars

\* C8: the step that translates a create or move-in record of a directory p
\* returns DirectoryCreated(p) and leaves exactly p pending; the next step of
\* the watcher after DirectoryCreated(p) is the install of p, which, if p is
\* still a directory, enters it into the mapping and goes on to the listing
\* or fails with an error; and the listing step returns DirectoryWatched of
\* the directory just installed. So DirectoryWatched(p) of a record follows
\* its DirectoryCreated(p).
DirCreateRecord(r) ==
    /\ r.mask \in {"CREATE", "MOVED_TO"} /\ r.isdir /\ r.name # NoName
    /\ r.wd \notin removed_watches
    /\ r.wd \in DOMAIN paths_by_watch

C8_CreatedBeforeWatched ==
    [][/\ (PollDrain /\ DirCreateRecord(Head(queue))) =>
             LET p == Append(paths_by_watch[Head(queue).wd], Head(queue).name)
             IN  ret' = Event("DirectoryCreated", p) /\ new_directories' = <<p>>
       /\ (ret.kind = "DirectoryCreated" /\ WatcherStep) =>
             /\ new_directories # <<>> /\ Head(new_directories) = ret.path
             /\ pc = "poll"
             /\ IF ret.path \in DOMAIN dirs
                THEN \/ /\ pc' = "list" /\ cur' = ret.path /\ ret' = NoEvent
                        /\ ret.path \in DOMAIN watches_by_path'
                     \/ ret'.kind = "Error"
                ELSE ret' = NoEvent /\ pc' = "poll"
       /\ (pc = "list" /\ WatcherStep) =>
             ret' = Event("DirectoryWatched", cur)]_vars

\* C8 witness: DirectoryCreated(p) has been returned for a record, p is still
\* a directory and is the one pending install.
C8_CreatedThenPending ==
    /\ ret.kind = "DirectoryCreated"
    /\ ret.path \in DOMAIN dirs
    /\ new_directories = <<ret.path>>
    /\ pc = "poll"

\* C15: the sequence ends (None) only right after an Error event, and after
\* an Error event of the channel (one that no failed add_watch accounts for)
\* the next step of the watcher ends the sequence (SpecChannel).
C15_ChannelErrorTerminal ==
    [][/\ (ret' = PollEnd) => (ret.kind = "Error" \/ ret = PollEnd)
       /\ (ret.kind = "Error" /\ ~errSeen /\ WatcherStep) => ret' = PollEnd]_vars

\* C16: the install step on which add_watch fails (the path is a directory
\* and the step does not go on to the listing) returns one Error event,
\* leaves watches_by_path, paths_by_watch and removed_watches as they are,
\* takes the failed path off new_directories without putting it back, and
\* leaves the watcher at the top of its loop, so that the next step goes on
\* with the rest of new_directories or with the raw records (SpecChannel).
C16_InstallFailureNonTerminal ==
    [][(PollInstall /\ Head(new_directories) \in DOMAIN dirs /\ pc' # "list") =>
          /\ ret' = Event("Error", <<>>)
          /\ watches_by_path' = watches_by_path
          /\ paths_by_watch' = paths_by_watch
          /\ removed_watches' = removed_watches
          /\ new_directories' = Tail(new_directories)
          /\ pc' = "poll" /\ ~panicked'
          /\ queue' = queue]_vars

\* C16 witness: an add_watch has failed for a directory other than the
\* root, the Error event is out, and a pending directory and a raw record
\* are left to go on with.
C16_FailedWithWorkLeft ==
    /\ ret.kind = "Error" /\ errSeen
    /\ pc = "poll" /\ ~panicked
    /\ Root \in DOMAIN watches_by_path
    /\ new_directories # <<>> /\ queue # <<>>

\* C17: for every path p, delete_watches(p) removes from watches_by_path
\* exactly the entries whose path is p or a descendant of p by components,
\* removes from paths_by_watch exactly their handles and adds exactly these
\* to removed_watches, and leaves every other entry as it is (SpecDelete).
C17_DeleteExact ==
    \A p \in DeletePaths :
        LET w == delete_watches(p, Self)
            below == {q \in DOMAIN watches_by_path : StartsWith(q, p)}
            wds == {watches_by_path[q] : q \in below}
        IN  /\ w.watches_by_path = Restrict(watches_by_path, DOMAIN watches_by_path \ below)
            /\ w.paths_by_watch = Restrict(paths_by_watch, DOMAIN paths_by_watch \ wds)
            /\ w.removed_watches = removed_watches \cup wds
            /\ w.new_directories = new_directories

\* a step in which rm_watch released a handle (the kernel itself drops a
\* watch only with its directory)
Released == dirs' = dirs /\ \E h \in Handles : kwatch[h] # NoIno /\ kwatch'[h] = NoIno

DeleteArguments(ev) ==
    IF ev.wd \in removed_watches \/ ev.wd \notin DOMAIN paths_by_watch
    THEN {}
    ELSE IF ev.mask \in {"DELETE", "MOVED_FROM"} /\ ev.isdir /\ ev.name # NoName
    THEN {Append(paths_by_watch[ev.wd], ev.name)}
    ELSE IF ev.mask = "DELETE_SELF" /\ ev.name = NoName /\ paths_by_watch[ev.wd] = Root
    THEN {Root}
    ELSE {}

\* C19: whenever delete_watches(p) is invoked new_directories is empty, and
\* after it new_directories contains neither p nor a descendant of p.
C19_NoStalePendingAfterDelete ==
    [][(~panicked /\ pc = "poll" /\ queue # <<>> /\ queue' = Tail(queue)) =>
            \A p \in DeleteArguments(Head(queue)) :
                /\ new_directories = <<>>
                /\ \A i \in DOMAIN new_directories' : ~StartsWith(new_directories'[i], p)]_vars

\* C19 witness: delete_watches has just removed the watches of a directory
\* and of one below it, and nothing is pending.
C19_SubtreeDeletedNothingPending ==
    /\ ret.kind = "DirectoryRemoved" /\ pc = "poll"
    /\ \E m, n \in marks : m[1] = ret.path /\ n[1] # ret.path /\ StartsWith(n[1], ret.path)
    /\ \A p \in DOMAIN watches_by_path : ~StartsWith(p, ret.path)
    /\ new_directories = <<>>

\* C20: every event translated from a raw record names the directory the
\* record's handle denoted when the kernel emitted it: the issue of the handle
\* under which the record was emitted is the issue under which the entry of
\* paths_by_watch that names the directory was installed.
C20_RecordNamesItsDirectory ==
    [][(PollDrain /\ IsEvent(ret')) => Head(queue).gen = hinst[Head(queue).wd]]_vars

\* C21: whenever really_delete_watches runs, the kernel still holds a watch
\* for every handle of removed_watches, so no rm_watch fails and the expect
\* does not panic.
C21_ReleaseNeverFails ==
    [][PollWouldBlock => /\ \A wd \in removed_watches : kwatch[wd] # NoIno
                         /\ ~panicked']_vars

-----------------------------------------------------------------------------
(* Properties of FileEventDelay (SpecDelay) *)

\* C9: a poll that finds the input not ready (nothing to take, not ended) and
\* nothing to release returns Pending, without failing and without touching
\* the timer.
C9_PendingWhenInputNotReady ==
    [][(DelayPoll /\ input = <<>> /\ ~input_done /\ processed_events = <<>>
          /\ (timer = NoTimer \/ timer = 0))
         => (dret' = Pending /\ timer' = timer)]_vars

\* C10: the items delivered are always a prefix of the items taken from the
\* input, and when the stream has ended (Ready(None)) every item taken has
\* been delivered.
C10_NothingDropped ==
    /\ IsPrefix(delivered, accepted)
    /\ dret = ReadyNone => delivered = accepted

\* the ids of the items that are eligible for delivery: moved to
\* processed_events, or delivered already
Eligible ==
    {processed_events[i].id : i \in 1..Len(processed_events)}
        \cup {delivered[i].id : i \in 1..Len(delivered)}

\* C11, lower bound: no item becomes eligible for delivery before a period
\* of the interval has ended since the input produced it, so none before one
\* has ended since it was accepted (two instants with no end of a period
\* between them are less than min_delay apart).
C11_HeldForMinDelay ==
    [][\A x \in Eligible' \ Eligible : x \notin young']_vars

\* x and then, with nothing between them, y were accepted in one window
AdjacentInWindow(x, y) ==
    \E k \in 1..Len(batches) : \E i \in 1..(Len(batches[k]) - 1) :
        batches[k][i] = x /\ batches[k][i + 1] = y

Items(s) == {s[i] : i \in 1..Len(s)}

\* C12: when FileRemoved(a) and then FileCreated(b), b another path, were
\* accepted in one window with nothing between them, the two are not both
\* delivered as they are (one moved event stands for them).
C12_MoveRecombined ==
    \A x, y \in Items(accepted) :
        (/\ AdjacentInWindow(x, y)
         /\ x.kind = "FileRemoved" /\ y.kind = "FileCreated" /\ x.path # y.path)
        => ~({x, y} \subseteq Items(delivered))

\* C13: when FileCreated(p) and then FileRemoved(p) were accepted in one
\* window with nothing between them, and no other item of the input is on p,
\* no item on p is delivered.
C13_EphemeralHidden ==
    \A x, y \in Items(accepted) :
        (/\ AdjacentInWindow(x, y)
         /\ x.kind = "FileCreated" /\ y.kind = "FileRemoved" /\ x.path = y.path
         /\ \A z \in Items(accepted) \cup Items(input) : z.path = x.path => z \in {x, y})
        => \A d \in Items(delivered) : d.path # x.path

AcceptedAt(x) == CHOOSE k \in 1..Len(accepted) : accepted[k] = x

\* C14: two delivered items on different paths are delivered in the order
\* in which they were accepted.
C14_UnrelatedPathsInOrder ==
    \A i, j \in 1..Len(delivered) :
        (i < j /\ delivered[i].path # delivered[j].path)
        => /\ delivered[i] \in Items(accepted) /\ delivered[j] \in Items(accepted)
           /\ AcceptedAt(delivered[i]) < AcceptedAt(delivered[j])

\* C14 witness: items on different paths have been delivered, two of them
\* accepted in one window and one in a later window.
C14_DeliveredAcrossWindows ==
    /\ Len(delivered) >= 3
    /\ delivered[1].path # delivered[2].path
    /\ delivered[2].path # delivered[3].path
    /\ Len(batches[1]) = 2
    /\ Len(batches) >= 2 /\ Items(batches[2]) # {}

\* a poll in which the interval is polled and has ticked
TimerFires ==
    /\ DelayPoll /\ processed_events = <<>> /\ ~input_done
    /\ (timer > 0 \/ (timer = NoTimer /\ event_queue[1] \o input # <<>>))

\* C22: a poll in which the timer fires stops it exactly when the new second
\* array is empty; a poll that accepts an item while no timer runs starts
\* one; and after every poll, when no timer runs both arrays are empty.
C22_TimerLifecycle ==
    [][/\ TimerFires => (timer' = NoTimer <=> event_queue'[2] = <<>>)
       /\ (DelayPoll /\ timer = NoTimer /\ processed_events = <<>> /\ input # <<>>)
             => timer' # NoTimer
       /\ (DelayPoll /\ timer' = NoTimer) => event_queue' = << <<>>, <<>> >>]_vars

====
